---- MODULE Spec2Model ----
(***************************************************************************)
(* Model of the postgres session record access layer (postgres/dao.go):    *)
(* the pool of reusable DBRow records and the Dao operations that read,    *)
(* insert, update, rotate, delete and sweep the rows of the session table. *)
(*                                                                         *)
(* Time: a time.Duration is an integer count of ticks; Second is the       *)
(* number of ticks in one second (10^9 in Go, scaled down here), and a     *)
(* duration is IntBits wide (64 in Go, scaled down here) and wraps.        *)
(***************************************************************************)
EXTENDS Bags, FiniteSets, Integers, Sequences, TLC

(* ------------------------------ bounds -------------------------------- *)

\* ticks per second: the scaled time.Second
Second == 2
\* width of the scaled two's complement time.Duration
IntBits == 5
\* largest whole number of seconds a caller passes as expiration
MaxSeconds == 2
\* number of DBRow objects that are live (pooled or held) at one time
MaxRecs == 1

Ids == {"s1", "s2"}
Contents == {"a", "b"}
Threads == {"t1", "t2"}
Recs == 1..MaxRecs
\* last-active timestamps a caller passes
LastActives == {0, 1}
\* readings of time.Now().Unix() seen by the sweep: up to the latest expiry
Clock == 0..(MaxSeconds + 1)

\* whole numbers of seconds, as durations
WholeSeconds == {s * Second : s \in 0..MaxSeconds}

\* durations a caller passes: the whole seconds, one tick less than a second,
\* one tick less than MaxSeconds seconds, and a negative sub-second duration
Durations ==
    WholeSeconds \cup {Second - 1, MaxSeconds * Second - 1, -(Second - 1)}

(* -------------------------- integer arithmetic ------------------------ *)

Modulus == 2 ^ IntBits

\* two's complement wrap-around of Go's int64 arithmetic (scaled to IntBits)
Wrap(x) == ((x + Modulus \div 2) % Modulus) - Modulus \div 2

\* Go's integer division truncates toward zero
GoDiv(a, b) == IF a >= 0 THEN a \div b ELSE -((-a) \div b)

\* mutant of ToSeconds: the store path rounds to the nearest second
ToSecondsRounded(d) ==
    IF d >= 0 THEN (d + Second \div 2) \div Second
    ELSE -((-d + Second \div 2) \div Second)

\* mutant of ToSeconds: the store path rounds up to the next second
ToSecondsCeil(d) == IF d >= 0 THEN (d + (Second - 1)) \div Second ELSE -((-d) \div Second)

\* expiration/time.Second on the store path
ToSeconds(d) == GoDiv(d, Second)

\* mutant of ToDuration: the load path forgets to scale the stored seconds
ToDurationUnscaled(s) == Wrap(s)

\* data.expiration *= time.Second on the load path
ToDuration(s) == Wrap(s * Second)

(* ------------------------------ values -------------------------------- *)

Nil == "nil"
ErrQuery == "ErrQuery"
ErrUnique == "ErrUnique"
ErrScan == "ErrScan"
\* the nil *DBRow
NoRec == 0
NoArg == "-"

\* new(DBRow): Go's zero value
ZeroRow == [sessionID |-> "", contents |-> "", lastActive |-> 0, expiration |-> 0]

\* the columns of one row of the session table
TableRow(id, contents, lastActive, seconds) ==
    [session_id |-> id, contents |-> contents,
     last_active |-> lastActive, expiration |-> seconds]

(* ------------------------------- state -------------------------------- *)

VARIABLES
    table,      \* the session table: a bag of rows
    heap,       \* heap[r]: the fields of DBRow object r
    pool,       \* the DBRow objects inside dbRowPool
    refs,       \* refs[r]: the callers that hold a pointer to r
    inRelease,  \* inRelease[t]: the object t has reset and not yet put back
    ret,        \* the last call that returned, and what it returned
    log         \* the calls of two racing callers, in the order they ran

vars == <<table, heap, pool, refs, inRelease, ret, log>>

\* r is garbage: no caller holds it and it is not in the pool
Free(r) == r \notin pool /\ refs[r] = {}

\* what a call returned: the affected-row count, the error and the record,
\* with the identifiers it was called with and the record it acquired
Return(op, id, newID, count, err, data, rec) ==
    [op |-> op, id |-> id, newID |-> newID, count |-> count, err |-> err,
     data |-> data, rec |-> rec]

(* ------------------------------ the pool ------------------------------ *)

\* dbRowPool.Get(): any pooled object, or a fresh one from New
PoolGet(r) == r \in pool \/ Free(r)

\* the fields of r as dbRowPool.Get() hands it out
Acquired(r) == IF r \in pool THEN heap[r] ELSE ZeroRow

Reset(row) == [row EXCEPT !.sessionID = "", !.contents = "", !.lastActive = 0]

\* mutant of AcquireDBRow: the record is handed out and stays in the pool
AcquireKeepPooled(t, r) ==
    /\ inRelease[t] = NoRec
    /\ PoolGet(r)
    /\ heap' = [heap EXCEPT ![r] = Acquired(r)]
    /\ refs' = [refs EXCEPT ![r] = @ \cup {t}]
    /\ ret' = Return("acquire", NoArg, NoArg, 0, Nil, r, r)
    /\ UNCHANGED <<table, pool, inRelease>>

AcquireDBRow(t, r) ==
    /\ inRelease[t] = NoRec
    /\ PoolGet(r)
    /\ heap' = [heap EXCEPT ![r] = Acquired(r)]
    /\ pool' = pool \ {r}
    /\ refs' = [refs EXCEPT ![r] = @ \cup {t}]
    /\ ret' = Return("acquire", NoArg, NoArg, 0, Nil, r, r)
    /\ UNCHANGED <<table, inRelease>>

\* mutant of ReleaseDBRow: dbRowPool.Put(row) first, row.Reset() after
ReleasePutThenReset(t, r) ==
    \/ /\ inRelease[t] = NoRec
       /\ t \in refs[r]
       /\ pool' = pool \cup {r}
       /\ inRelease' = [inRelease EXCEPT ![t] = r]
       /\ UNCHANGED <<table, heap, refs, ret>>
    \/ /\ inRelease[t] = r
       /\ heap' = [heap EXCEPT ![r] = Reset(heap[r])]
       /\ refs' = [refs EXCEPT ![r] = @ \ {t}]
       /\ inRelease' = [inRelease EXCEPT ![t] = NoRec]
       /\ ret' = Return("release", NoArg, NoArg, 0, Nil, r, NoRec)
       /\ UNCHANGED <<table, pool>>

\* releaseDBRow: row.Reset(), then dbRowPool.Put(row)
ReleaseDBRow(t, r) ==
    \/ /\ inRelease[t] = NoRec
       /\ t \in refs[r]
       /\ heap' = [heap EXCEPT ![r] = Reset(heap[r])]
       /\ inRelease' = [inRelease EXCEPT ![t] = r]
       /\ UNCHANGED <<table, pool, refs, ret>>
    \/ /\ inRelease[t] = r
       /\ pool' = pool \cup {r}
       /\ refs' = [refs EXCEPT ![r] = @ \ {t}]
       /\ inRelease' = [inRelease EXCEPT ![t] = NoRec]
       /\ ret' = Return("release", NoArg, NoArg, 0, Nil, r, NoRec)
       /\ UNCHANGED <<table, heap>>

\* the garbage collector empties a sync.Pool at any time
PoolGC(r) ==
    /\ r \in pool
    /\ pool' = pool \ {r}
    /\ heap' = [heap EXCEPT ![r] = ZeroRow]
    /\ UNCHANGED <<table, refs, inRelease, ret>>

(* --------------------------- the statements --------------------------- *)

RECURSIVE SumCopies(_, _)
\* the number of copies in bag B of the rows of S
SumCopies(S, B) ==
    IF S = {} THEN 0
    ELSE LET r == CHOOSE x \in S : TRUE
         IN  CopiesIn(r, B) + SumCopies(S \ {r}, B)

\* UPDATE: the rows S of B become new[r]; the count is the rows matched
UpdateRows(B, S, new) ==
    LET G(r) == IF r \in S THEN new[r] ELSE r
        T == {G(r) : r \in BagToSet(B)}
    IN  [table |-> [x \in T |-> SumCopies({r \in BagToSet(B) : G(r) = x}, B)],
         count |-> SumCopies(S, B)]

\* DELETE: the rows S of B go
DeleteRows(B, S) ==
    [table |-> [x \in BagToSet(B) \ S |-> B[x]], count |-> SumCopies(S, B)]

\* INSERT ... VALUES row
InsertValues(B, row) == [table |-> B (+) SetToBag({row}), count |-> 1]

\* SELECT session_id,contents,last_active,expiration ... WHERE session_id=$1
sqlGetSessionBySessionID(B, id) == {r \in BagToSet(B) : r.session_id = id}

\* SELECT count(*) as total
sqlCountSessions(B) == BagCardinality(B)

\* mutant of sqlUpdateBySessionID: an update that inserts the row it misses
sqlUpdateOrInsert(B, contents, lastActive, seconds, id) ==
    LET S == {r \in BagToSet(B) : r.session_id = id}
    IN  IF S = {} THEN InsertValues(B, TableRow(id, contents, lastActive, seconds))
        ELSE UpdateRows(B, S, [r \in S |-> [r EXCEPT !.contents = contents,
                                                     !.last_active = lastActive,
                                                     !.expiration = seconds]])

\* mutant of sqlUpdateBySessionID: the UPDATE without its WHERE clause
sqlUpdateEveryRow(B, contents, lastActive, seconds, id) ==
    LET S == BagToSet(B)
    IN  UpdateRows(B, S, [r \in S |-> [r EXCEPT !.contents = contents,
                                                !.last_active = lastActive,
                                                !.expiration = seconds]])

\* UPDATE ... SET contents=$1,last_active=$2,expiration=$3 WHERE session_id=$4
sqlUpdateBySessionID(B, contents, lastActive, seconds, id) ==
    LET S == {r \in BagToSet(B) : r.session_id = id}
    IN  UpdateRows(B, S, [r \in S |-> [r EXCEPT !.contents = contents,
                                                !.last_active = lastActive,
                                                !.expiration = seconds]])

\* mutant of sqlDeleteBySessionID: the DELETE without its WHERE clause
sqlDeleteEveryRow(B, id) == DeleteRows(B, BagToSet(B))

\* DELETE ... WHERE session_id=$1
sqlDeleteBySessionID(B, id) ==
    DeleteRows(B, {r \in BagToSet(B) : r.session_id = id})

\* mutant of sqlDeleteExpiredSessions: the sweep without "AND expiration<>0"
sqlDeleteExpiredNoGuard(B, now) ==
    DeleteRows(B, {r \in BagToSet(B) : r.last_active + r.expiration <= now})

\* mutant of sqlDeleteExpiredSessions: "<" where the statement has "<="
sqlDeleteExpiredStrict(B, now) ==
    DeleteRows(B, {r \in BagToSet(B) :
                        r.last_active + r.expiration < now /\ r.expiration # 0})

\* DELETE ... WHERE last_active+expiration<=$1 AND expiration<>0
sqlDeleteExpiredSessions(B, now) ==
    DeleteRows(B, {r \in BagToSet(B) :
                        r.last_active + r.expiration <= now /\ r.expiration # 0})

\* mutant of sqlInsert: an insert that replaces the row already keyed by id
sqlInsertOrReplace(B, id, contents, lastActive, seconds) ==
    InsertValues(DeleteRows(B, {r \in BagToSet(B) : r.session_id = id}).table,
                 TableRow(id, contents, lastActive, seconds))

\* INSERT ... (session_id, contents, last_active, expiration) VALUES ($1,$2,$3,$4)
sqlInsert(B, id, contents, lastActive, seconds) ==
    InsertValues(B, TableRow(id, contents, lastActive, seconds))

\* mutant of sqlRegenerate: rotation written as a copy of the row under newID
sqlRegenerateCopy(B, newID, lastActive, seconds, oldID) ==
    LET S == {r \in BagToSet(B) : r.session_id = oldID}
    IN  [table |-> B (+) SetToBag({[r EXCEPT !.session_id = newID,
                                             !.last_active = lastActive,
                                             !.expiration = seconds] : r \in S}),
         count |-> SumCopies(S, B)]

\* mutant of sqlRegenerate: a rotation that inserts under newID when oldID is missing
sqlRegenerateOrInsert(B, newID, lastActive, seconds, oldID) ==
    LET S == {r \in BagToSet(B) : r.session_id = oldID}
    IN  IF S = {} THEN InsertValues(B, TableRow(newID, "", lastActive, seconds))
        ELSE UpdateRows(B, S, [r \in S |-> [r EXCEPT !.session_id = newID,
                                                      !.last_active = lastActive,
                                                      !.expiration = seconds]])

\* UPDATE ... SET session_id=$1,last_active=$2,expiration=$3 WHERE session_id=$4
sqlRegenerate(B, newID, lastActive, seconds, oldID) ==
    LET S == {r \in BagToSet(B) : r.session_id = oldID}
    IN  UpdateRows(B, S, [r \in S |-> [r EXCEPT !.session_id = newID,
                                                !.last_active = lastActive,
                                                !.expiration = seconds]])

(* ---------------------------- the executor ---------------------------- *)

\* the uniqueness constraint on session_id
UniqueKey(B) ==
    \A r1, r2 \in BagToSet(B) :
        /\ CopiesIn(r1, B) = 1
        /\ r1.session_id = r2.session_id => r1 = r2

\* mutant of Exec: a table without the uniqueness constraint
ExecUnconstrained(B, stmt, fail) ==
    IF fail THEN [table |-> B, count |-> 0, err |-> ErrQuery]
    ELSE [table |-> stmt.table, count |-> stmt.count, err |-> Nil]

\* db.Exec: one atomic statement. It fails as a whole, leaving the table as
\* it was, when the executor fails or the constraint would be violated.
Exec(B, stmt, fail) ==
    IF fail THEN [table |-> B, count |-> 0, err |-> ErrQuery]
    ELSE IF ~UniqueKey(stmt.table) THEN [table |-> B, count |-> 0, err |-> ErrUnique]
    ELSE [table |-> stmt.table, count |-> stmt.count, err |-> Nil]

(* --------------------------- the operations --------------------------- *)

\* row.Scan(&data.sessionID, &data.contents, &data.lastActive, &data.expiration):
\* the fields of a matching row, or data untouched under sql.ErrNoRows
Scan(rows, data) ==
    IF rows = {} THEN {data}
    ELSE {[sessionID |-> row.session_id, contents |-> row.contents,
           lastActive |-> row.last_active, expiration |-> row.expiration] : row \in rows}

\* the records getSessionBySessionID can return for id when it acquired data
\* and neither QueryRow nor Scan failed
Fetch(B, id, data) ==
    {[d EXCEPT !.expiration = ToDuration(d.expiration)] :
        d \in Scan(sqlGetSessionBySessionID(B, id), data)}

\* outcome: Nil, or the failure of QueryRow (ErrQuery) or of Scan (ErrScan)
getSessionBySessionID(t, id, r, outcome) ==
    /\ inRelease[t] = NoRec
    /\ PoolGet(r)
    /\ pool' = pool \ {r}
    /\ \/ /\ outcome \in {ErrQuery, ErrScan}
          /\ heap' = [heap EXCEPT ![r] = ZeroRow]
          /\ ret' = Return("get", id, NoArg, 0, outcome, r, NoRec)
          /\ UNCHANGED refs
       \/ /\ outcome = Nil
          /\ \E data \in Fetch(table, id, Acquired(r)) :
                heap' = [heap EXCEPT ![r] = data]
          /\ refs' = [refs EXCEPT ![r] = @ \cup {t}]
          /\ ret' = Return("get", id, NoArg, 0, Nil, r, r)
    /\ UNCHANGED <<table, inRelease>>

\* mutant of countSessions: the failure of the count is returned as an error
countSessionsPropagate(outcome) ==
    /\ ret' = Return("count", NoArg, NoArg,
                     IF outcome = Nil THEN sqlCountSessions(table) ELSE 0,
                     outcome, NoRec, NoRec)
    /\ UNCHANGED <<table, heap, pool, refs, inRelease>>

countSessions(outcome) ==
    /\ ret' = Return("count", NoArg, NoArg,
                     IF outcome = Nil THEN sqlCountSessions(table) ELSE 0,
                     Nil, NoRec, NoRec)
    /\ UNCHANGED <<table, heap, pool, refs, inRelease>>

\* mutant of Call: the executor's error is dropped on the way to the caller
CallSwallow(op, id, newID, stmt, fail) ==
    LET res == Exec(table, stmt, fail)
    IN  /\ table' = res.table
        /\ ret' = Return(op, id, newID, res.count, Nil, NoRec, NoRec)
        /\ UNCHANGED <<heap, pool, refs, inRelease>>

\* a call that is one db.Exec of statement stmt
Call(op, id, newID, stmt, fail) ==
    LET res == Exec(table, stmt, fail)
    IN  /\ table' = res.table
        /\ ret' = Return(op, id, newID, res.count, res.err, NoRec, NoRec)
        /\ UNCHANGED <<heap, pool, refs, inRelease>>

updateBySessionID(id, contents, lastActive, expiration, fail) ==
    Call("update", id, NoArg,
         sqlUpdateBySessionID(table, contents, lastActive, ToSeconds(expiration), id),
         fail)

deleteBySessionID(id, fail) ==
    Call("delete", id, NoArg, sqlDeleteBySessionID(table, id), fail)

\* now: time.Now().Unix()
deleteExpiredSessions(now, fail) ==
    Call("sweep", NoArg, NoArg, sqlDeleteExpiredSessions(table, now), fail)

insert(id, contents, lastActive, expiration, fail) ==
    Call("insert", id, NoArg,
         sqlInsert(table, id, contents, lastActive, ToSeconds(expiration)), fail)

regenerate(oldID, newID, lastActive, expiration, fail) ==
    Call("regenerate", oldID, newID,
         sqlRegenerate(table, newID, lastActive, ToSeconds(expiration), oldID), fail)

(* -------------------------- the specifications ------------------------ *)

Outcomes == {Nil, ErrQuery, ErrScan}

PoolId == "s1"
PoolContents == "a"

InitPool ==
    /\ heap = [r \in Recs |-> ZeroRow]
    /\ pool = {}
    /\ refs = [r \in Recs |-> {}]
    /\ inRelease = [t \in Threads |-> NoRec]
    /\ ret = Return("none", NoArg, NoArg, 0, Nil, NoRec, NoRec)
    /\ log = <<>>

Init ==
    /\ table = EmptyBag
    /\ InitPool

\* the operations on the table, by any caller, in any order
NextTable ==
    \/ \E outcome \in Outcomes : countSessions(outcome) /\ UNCHANGED log
    \/ \E id \in Ids, contents \in Contents, lastActive \in LastActives,
          expiration \in Durations :
            updateBySessionID(id, contents, lastActive, expiration, FALSE)
                /\ UNCHANGED log
    \/ \E id \in Ids, contents \in Contents, lastActive \in LastActives,
          expiration \in Durations :
            insert(id, contents, lastActive, expiration, FALSE) /\ UNCHANGED log
    \/ \E id \in Ids : deleteBySessionID(id, FALSE) /\ UNCHANGED log
    \/ \E now \in Clock : deleteExpiredSessions(now, FALSE) /\ UNCHANGED log
    \/ \E oldID \in Ids, newID \in Ids, lastActive \in LastActives,
          expiration \in Durations :
            regenerate(oldID, newID, lastActive, expiration, FALSE) /\ UNCHANGED log

\* the same operations when the executor fails: a failed statement returns
\* the same whatever it was to write
NextTableFail ==
    \/ \E id \in Ids : updateBySessionID(id, PoolContents, 0, 0, TRUE) /\ UNCHANGED log
    \/ \E id \in Ids : insert(id, PoolContents, 0, 0, TRUE) /\ UNCHANGED log
    \/ \E id \in Ids : deleteBySessionID(id, TRUE) /\ UNCHANGED log
    \/ deleteExpiredSessions(0, TRUE) /\ UNCHANGED log
    \/ \E oldID \in Ids, newID \in Ids :
            regenerate(oldID, newID, 0, 0, TRUE) /\ UNCHANGED log

\* the operations on the pool, by concurrent callers
NextPool ==
    \/ \E t \in Threads, id \in Ids, r \in Recs, outcome \in Outcomes :
            getSessionBySessionID(t, id, r, outcome) /\ UNCHANGED log
    \/ \E t \in Threads, r \in Recs : AcquireDBRow(t, r) /\ UNCHANGED log
    \/ \E t \in Threads, r \in Recs : ReleaseDBRow(t, r) /\ UNCHANGED log
    \/ \E r \in Recs : PoolGC(r) /\ UNCHANGED log

\* the rows the pool's callers work on: one session, written and deleted
NextPoolTable ==
    \/ \E expiration \in WholeSeconds :
            insert(PoolId, PoolContents, 1, expiration, FALSE)
                /\ UNCHANGED log
    \/ deleteBySessionID(PoolId, FALSE) /\ UNCHANGED log

Next == NextTable \/ NextTableFail \/ NextPool

Spec == Init /\ [][Next]_vars

SpecTable == Init /\ [][NextTable \/ NextTableFail]_vars

SpecPool == Init /\ [][NextPool \/ NextPoolTable]_vars

\* one caller that fetches and keeps what it fetched, on an executor that can fail
FailCaller == "t1"

NextFailGet ==
    \E id \in Ids, r \in Recs, outcome \in Outcomes :
        getSessionBySessionID(FailCaller, id, r, outcome) /\ UNCHANGED log

SpecFail == Init /\ [][NextFailGet \/ NextPoolTable \/ NextTableFail]_vars

(* ------------------- construction, then the operations ----------------- *)

\* the error of sql.Open
ErrOpen == "ErrOpen"
\* the nil *sql.DB
NilConnection == "nil *sql.DB"
\* the nil *Dao: a pointer is the set of the objects it points to
NilDao == {}

\* sql.Open(db.Driver, db.Dsn): the connection, or nil with the error
sqlOpen(openErr) == IF openErr = Nil THEN "*sql.DB" ELSE NilConnection

\* no call has returned a usable access layer yet
Unconstructed == ret.op = "none" \/ (ret.op = "NewDao" /\ ret.err # Nil)

\* NewDao: db := &Dao{...}; db.Connection, err = sql.Open(...); the seven
\* statements are built; return db, err
NewDao(openErr) ==
    /\ Unconstructed
    /\ ret' = [op |-> "NewDao", id |-> NoArg, newID |-> NoArg, count |-> 0,
               err |-> openErr, data |-> NoRec, rec |-> NoRec,
               dao |-> {[Connection |-> sqlOpen(openErr)]}]
    /\ UNCHANGED <<table, heap, pool, refs, inRelease>>

NextNew ==
    \/ \E openErr \in {Nil, ErrOpen} : NewDao(openErr) /\ UNCHANGED log
    \/ /\ ~Unconstructed
       /\ \E id \in Ids, contents \in Contents, lastActive \in LastActives,
             expiration \in WholeSeconds :
                insert(id, contents, lastActive, expiration, FALSE)
       /\ UNCHANGED log
    \/ /\ ~Unconstructed
       /\ \E id \in Ids : deleteBySessionID(id, FALSE)
       /\ UNCHANGED log

SpecNew == Init /\ [][NextNew]_vars

(* ---- one session written with any duration a time.Duration can hold ---- *)

StoreId == "s1"

\* every value of the (scaled) time.Duration
AllDurations == (-(Modulus \div 2))..(Modulus \div 2 - 1)

\* log holds the expiration the caller supplied to the write that last took
\* effect: a write that failed or matched no row leaves the row as it was
Supplied(op, expiration) ==
    IF ret'.err = Nil /\ ret'.count = 1
    THEN log' = <<[op |-> op, expiration |-> expiration]>>
    ELSE UNCHANGED log

StoreInsert ==
    \E lastActive \in LastActives, expiration \in AllDurations :
        /\ insert(StoreId, PoolContents, lastActive, expiration, FALSE)
        /\ Supplied("insert", expiration)

StoreUpdate ==
    \E lastActive \in LastActives, expiration \in AllDurations :
        /\ updateBySessionID(StoreId, PoolContents, lastActive, expiration, FALSE)
        /\ Supplied("update", expiration)

StoreRegenerate ==
    \E lastActive \in LastActives, expiration \in AllDurations :
        /\ regenerate(StoreId, StoreId, lastActive, expiration, FALSE)
        /\ Supplied("regenerate", expiration)

StoreDelete == deleteBySessionID(StoreId, FALSE) /\ UNCHANGED log

StoreSweep == \E now \in Clock : deleteExpiredSessions(now, FALSE) /\ UNCHANGED log

SpecStore ==
    Init /\ [][StoreInsert \/ StoreUpdate \/ StoreRegenerate \/ StoreDelete
                    \/ StoreSweep]_vars

(* ---- updates among inserts and deletes, each update logged with its ---- *)
(* ---- arguments and the table it was made on                          ---- *)

FrameInsert ==
    /\ \E id \in Ids, lastActive \in LastActives, expiration \in WholeSeconds :
            insert(id, PoolContents, lastActive, expiration, FALSE)
    /\ log' = <<>>

FrameUpdate ==
    \E id \in Ids, contents \in Contents, lastActive \in LastActives,
       expiration \in Durations :
        /\ updateBySessionID(id, contents, lastActive, expiration, FALSE)
        /\ log' = <<[op |-> "update", id |-> id, contents |-> contents,
                     lastActive |-> lastActive, expiration |-> expiration,
                     before |-> table]>>

FrameDelete ==
    /\ \E id \in Ids : deleteBySessionID(id, FALSE)
    /\ log' = <<>>

SpecFrame == Init /\ [][FrameInsert \/ FrameUpdate \/ FrameDelete]_vars

(* ---- two callers race on one session: one deletes it, one updates it ---- *)

RaceId == "s1"

Logged(op) == \E i \in 1..Len(log) : log[i].op = op

\* the session exists when the two calls are made
InitRace ==
    /\ \E contents \in Contents, lastActive \in LastActives, seconds \in 0..MaxSeconds :
            table = SetToBag({TableRow(RaceId, contents, lastActive, seconds)})
    /\ InitPool

RaceDelete ==
    /\ ~Logged("delete")
    /\ \E fail \in BOOLEAN : deleteBySessionID(RaceId, fail)
    /\ log' = Append(log, [op |-> "delete", count |-> ret'.count, err |-> ret'.err,
                           row |-> TableRow(RaceId, NoArg, 0, 0)])

RaceUpdate ==
    /\ ~Logged("update")
    /\ \E contents \in Contents, lastActive \in LastActives,
          expiration \in Durations, fail \in BOOLEAN :
            /\ updateBySessionID(RaceId, contents, lastActive, expiration, fail)
            /\ log' = Append(log, [op |-> "update", count |-> ret'.count,
                                   err |-> ret'.err,
                                   row |-> TableRow(RaceId, contents, lastActive,
                                                    ToSeconds(expiration))])

SpecRace == InitRace /\ [][RaceDelete \/ RaceUpdate]_vars

(* ============================== the claims ============================ *)

HasRow(B, id) == sqlGetSessionBySessionID(B, id) # {}

\* the row of B keyed by id
RowOf(B, id) == CHOOSE r \in BagToSet(B) : r.session_id = id

\* the records acquireDBRow can hand to getSessionBySessionID: fresh, or
\* recycled with the expiration an earlier fetch left in them
AcquiredRows == {[ZeroRow EXCEPT !.expiration = d] : d \in WholeSeconds}

\* a record as a caller reads it
Record(id, contents, lastActive, expiration) ==
    [sessionID |-> id, contents |-> contents, lastActive |-> lastActive,
     expiration |-> expiration]

\* duration d without its sub-second part
TruncToSecond(d) == IF d >= 0 THEN d - (d % Second) ELSE -((-d) - ((-d) % Second))

\* C1: an insert of a whole number s of seconds that succeeds is followed, with
\* no mutation in between, by a fetch of the same id that returns the inserted
\* identifier, contents and lastActive and an expiration of exactly s seconds,
\* whatever record the fetch acquired.
RoundTrip ==
    [][\A id \in Ids, contents \in Contents, lastActive \in LastActives,
          s \in 0..MaxSeconds :
            (/\ ret'.op = "insert" /\ ret'.id = id /\ ret'.err = Nil
             /\ insert(id, contents, lastActive, s * Second, FALSE))
            => \A data \in AcquiredRows :
                    Fetch(table', id, data)
                        = {Record(id, contents, lastActive, s * Second)}]_vars

\* C1 witness: an insert of MaxSeconds seconds succeeded and a fetch of its id
\* now returns MaxSeconds seconds
RoundTripReached ==
    /\ ret.op = "insert" /\ ret.err = Nil /\ ret.count = 1
    /\ HasRow(table, ret.id)
    /\ RowOf(table, ret.id).expiration = MaxSeconds
    /\ \A rec \in Fetch(table, ret.id, ZeroRow) :
            rec.sessionID = ret.id /\ rec.expiration = MaxSeconds * Second

\* C2 as stated: for every oldID and newID, regenerate on a table holding oldID
\* leaves oldID not found, newID returning the old contents with the supplied
\* lastActive and expiration, and the row count unchanged.
RenameAny ==
    [][\A oldID \in Ids, newID \in Ids, lastActive \in LastActives,
          expiration \in Durations :
            (/\ ret'.op = "regenerate" /\ ret'.id = oldID /\ ret'.newID = newID
             /\ HasRow(table, oldID)
             /\ regenerate(oldID, newID, lastActive, expiration, FALSE))
            => /\ \A data \in AcquiredRows :
                    \A rec \in Fetch(table', oldID, data) : rec.sessionID = ""
               /\ \A data \in AcquiredRows :
                    Fetch(table', newID, data)
                        = {Record(newID, RowOf(table, oldID).contents,
                                  lastActive, expiration)}
               /\ BagCardinality(table') = BagCardinality(table)]_vars

\* C2 amended: for oldID # newID with no row keyed by newID, a regenerate on a
\* table holding oldID that returns no error reports 1 row, leaves oldID not
\* found and newID returning the old contents with the supplied lastActive and
\* the supplied expiration truncated to whole seconds, and keeps the row count.
RenameNotDuplicate ==
    [][\A oldID \in Ids, newID \in Ids, lastActive \in LastActives,
          expiration \in Durations :
            (/\ ret'.op = "regenerate" /\ ret'.id = oldID /\ ret'.newID = newID
             /\ ret'.err = Nil
             /\ oldID # newID /\ HasRow(table, oldID) /\ ~HasRow(table, newID)
             /\ regenerate(oldID, newID, lastActive, expiration, FALSE))
            => /\ ret'.count = 1
               /\ \A data \in AcquiredRows :
                    \A rec \in Fetch(table', oldID, data) : rec.sessionID = ""
               /\ \A data \in AcquiredRows :
                    Fetch(table', newID, data)
                        = {Record(newID, RowOf(table, oldID).contents,
                                  lastActive, TruncToSecond(expiration))}
               /\ BagCardinality(table') = BagCardinality(table)]_vars

\* C2 witness: a rotation to a new identifier returned 1 and the old identifier
\* no longer resolves
RenameReached ==
    /\ ret.op = "regenerate" /\ ret.err = Nil /\ ret.count = 1
    /\ ret.id # ret.newID
    /\ ~HasRow(table, ret.id)
    /\ HasRow(table, ret.newID)
    /\ RowOf(table, ret.newID).expiration = MaxSeconds

\* a row the sweep run at time now must remove
Expired(row, now) == row.expiration # 0 /\ row.last_active + row.expiration <= now

\* C3: a sweep run at time now removes exactly the rows with expiration # 0 and
\* lastActive + expiration <= now and returns their number; every other row,
\* and so every row with expiration 0, stays as it was.
ExpirationSweep ==
    [][\A now \in Clock :
            (ret'.op = "sweep" /\ deleteExpiredSessions(now, FALSE))
            => /\ ret'.err = Nil
               /\ BagToSet(table') \subseteq BagToSet(table)
               /\ \A row \in BagToSet(table) :
                    CopiesIn(row, table')
                        = IF Expired(row, now) THEN 0 ELSE CopiesIn(row, table)
               /\ ret'.count = BagCardinality(table) - BagCardinality(table')]_vars

\* C3 witness: a sweep removed a row and left a row that never expires, whose
\* lastActive is the oldest there is
ExpirationSweepReached ==
    /\ ret.op = "sweep" /\ ret.err = Nil /\ ret.count = 1
    /\ \E row \in BagToSet(table) : row.expiration = 0 /\ row.last_active = 0

\* both racing calls have run and neither failed
RaceOver == Len(log) = 2 /\ log[1].err = Nil /\ log[2].err = Nil

\* C4 as stated: when the delete and the update of one existing row have both
\* run, the row is deleted or carries the whole update, and one of the two
\* calls, the loser, reports 0 affected rows.
RaceLoserReportsZero ==
    RaceOver =>
        /\ \/ ~HasRow(table, RaceId)
           \/ \E i \in 1..2 : log[i].op = "update" /\ table = SetToBag({log[i].row})
        /\ \E i \in 1..2 : log[i].count = 0

\* C4 amended: the call that runs first reports 1 and, if it is the update,
\* leaves the row with all three fields written; when both have run the row is
\* deleted whatever the order, an update that ran second reports 0 and a delete
\* that ran second reports 1.
RaceOutcome ==
    /\ (Len(log) = 1 /\ log[1].err = Nil) =>
            /\ log[1].count = 1
            /\ table = IF log[1].op = "update"
                       THEN SetToBag({log[1].row}) ELSE EmptyBag
    /\ RaceOver =>
            /\ table = EmptyBag
            /\ log[1].count = 1
            /\ log[2].count = IF log[2].op = "update" THEN 0 ELSE 1

\* C4 witness: the delete ran first and hit the row, the update ran second and
\* found nothing
RaceReached ==
    /\ RaceOver
    /\ log[1].op = "delete" /\ log[1].count = 1
    /\ log[2].op = "update" /\ log[2].count = 0
    /\ table = EmptyBag

\* C5 as stated: a fetch that found no row returns, without error, a record
\* that is empty in every field, whatever the pool held before.
FetchAbsentEmpty ==
    (ret.op = "get" /\ ret.err = Nil /\ ~HasRow(table, ret.id))
        => heap[ret.rec] = ZeroRow

\* C6 as stated: every record acquireDBRow returns has all four fields zero.
PoolZeroState ==
    ret.op = "acquire" => heap[ret.rec] = ZeroRow

\* the three fields DBRow.Reset clears
Cleared(row) == row.sessionID = "" /\ row.contents = "" /\ row.lastActive = 0

\* C7: a record in the pool always has empty identifier, empty contents and
\* zero lastActive (it was reset before it was put back), and so has every
\* record acquireDBRow returns.
IdempotentReset ==
    /\ \A r \in pool : Cleared(heap[r])
    /\ ret.op = "acquire" => Cleared(heap[ret.rec])

\* C7 witness: acquireDBRow returned a record that an earlier fetch had filled
\* and its holder released (its expiration is still that fetch's)
IdempotentResetReached ==
    /\ ret.op = "acquire"
    /\ heap[ret.rec].expiration # 0
    /\ Cleared(heap[ret.rec])

\* C8 as stated: when getSessionBySessionID returns an error, the record it
\* acquired is back in the pool.
ReleasedOnErrorPaths ==
    (ret.op = "get" /\ ret.err # Nil) => ret.data \in pool

\* C9: no two rows of the table have the same identifier.
IdentifierUnique ==
    \A r1 \in BagToSet(table) :
        /\ table[r1] = 1
        /\ \A r2 \in BagToSet(table) : r1.session_id = r2.session_id => r1 = r2

\* C9 witness: a regenerate whose newID is the key of another row was refused
\* and both rows are still there
RegenerateCollisionRefused ==
    /\ ret.op = "regenerate" /\ ret.err = ErrUnique
    /\ ret.id # ret.newID
    /\ HasRow(table, ret.id) /\ HasRow(table, ret.newID)
    /\ BagCardinality(table) = 2

\* C10: an insert of an id that has a row returns an error and leaves the table
\* as it was; an insert of an absent id reports 1 affected row and adds exactly
\* the one row.
DuplicateInsert ==
    [][(ret'.op = "insert" /\ ret'.err # ErrQuery)
        => IF HasRow(table, ret'.id)
           THEN ret'.err # Nil /\ table' = table
           ELSE /\ ret'.err = Nil /\ ret'.count = 1
                /\ BagCardinality(table') = BagCardinality(table) + 1
                /\ \A row \in BagToSet(table) : CopiesIn(row, table') = 1
                /\ HasRow(table', ret'.id)]_vars

\* C10 witness: an insert of an id that has a row returned the constraint's error
DuplicateInsertRefused ==
    /\ ret.op = "insert" /\ ret.err = ErrUnique
    /\ HasRow(table, ret.id)

\* C11: an update, a delete or a regenerate whose identifier has no row, on an
\* executor that works, returns count 0 and no error and leaves the table as it
\* was; such a regenerate creates no row under newID.
ZeroRowsAffected ==
    [][(/\ ret'.op \in {"update", "delete", "regenerate"}
        /\ ret'.err # ErrQuery
        /\ ~HasRow(table, ret'.id))
        => /\ ret'.err = Nil
           /\ ret'.count = 0
           /\ table' = table
           /\ ret'.op = "regenerate" =>
                    HasRow(table', ret'.newID) = HasRow(table, ret'.newID)]_vars

\* C11 witness: a regenerate of a missing oldID returned count 0 and no error,
\* and there is no row under newID
ZeroRowsAffectedReached ==
    /\ ret.op = "regenerate" /\ ret.err = Nil /\ ret.count = 0
    /\ ret.id # ret.newID
    /\ ~HasRow(table, ret.id) /\ ~HasRow(table, ret.newID)

\* C12: a fetch whose query or scan fails returns that error and no record, and
\* an update, delete, sweep, insert or regenerate whose statement the executor
\* fails returns the executor's error.
FailuresPropagated ==
    [][/\ ret'.op = "get" =>
            \A t \in Threads, r \in Recs, outcome \in {ErrQuery, ErrScan} :
                getSessionBySessionID(t, ret'.id, r, outcome)
                    => ret'.err = outcome /\ ret'.rec = NoRec
       /\ ret'.op = "update" =>
            \A contents \in Contents, lastActive \in LastActives,
               expiration \in Durations :
                updateBySessionID(ret'.id, contents, lastActive, expiration, TRUE)
                    => ret'.err = ErrQuery
       /\ ret'.op = "insert" =>
            \A contents \in Contents, lastActive \in LastActives,
               expiration \in Durations :
                insert(ret'.id, contents, lastActive, expiration, TRUE)
                    => ret'.err = ErrQuery
       /\ ret'.op = "regenerate" =>
            \A lastActive \in LastActives, expiration \in Durations :
                regenerate(ret'.id, ret'.newID, lastActive, expiration, TRUE)
                    => ret'.err = ErrQuery
       /\ ret'.op = "delete" =>
            (deleteBySessionID(ret'.id, TRUE) => ret'.err = ErrQuery)
       /\ ret'.op = "sweep" =>
            \A now \in Clock :
                deleteExpiredSessions(now, TRUE) => ret'.err = ErrQuery]_vars

\* C12 witness: the scan of an existing row failed and the fetch returned the
\* error and no record
FailuresPropagatedReached ==
    /\ ret.op = "get" /\ ret.err = ErrScan /\ ret.rec = NoRec
    /\ HasRow(table, ret.id)

\* C13: countSessions returns the number of rows of the table when query and
\* scan succeed and 0 when either fails, never an error, and leaves the table
\* as it was.
AdvisoryCount ==
    [][ret'.op = "count" =>
        /\ ret'.err = Nil
        /\ table' = table
        /\ \A outcome \in Outcomes :
                countSessions(outcome)
                    => ret'.count = IF outcome = Nil THEN BagCardinality(table) ELSE 0]_vars

\* C13 witness: a failed count of a table of two rows returned 0 and no error
AdvisoryCountReached ==
    /\ ret.op = "count" /\ ret.err = Nil /\ ret.count = 0
    /\ BagCardinality(table) = 2

\* the row of StoreId is there as the write recorded in log left it
Stored == Len(log) = 1 /\ HasRow(table, StoreId)

\* C14: the row written by insert, updateBySessionID or regenerate holds the
\* supplied duration in seconds with the sub-second part cut off, not rounded,
\* and a fetch returns exactly that many seconds, whatever record it acquired.
TruncatedStore ==
    Stored =>
        /\ RowOf(table, StoreId).expiration * Second = TruncToSecond(log[1].expiration)
        /\ \A data \in AcquiredRows :
                \A rec \in Fetch(table, StoreId, data) :
                    rec.expiration = RowOf(table, StoreId).expiration * Second

\* C14 witness: a duration one tick short of MaxSeconds seconds was written and
\* is stored as MaxSeconds - 1 seconds
TruncatedStoreReached ==
    /\ Stored
    /\ ret.op \in {"insert", "update", "regenerate"}
    /\ log[1].expiration = MaxSeconds * Second - 1
    /\ RowOf(table, StoreId).expiration = MaxSeconds - 1

\* C15 as stated: NewDao returns the error of the open to its caller, and what
\* it returns is an access layer or an error, never both.
ConstructionEither ==
    ret.op = "NewDao" => (ret.err = Nil) # (ret.dao = NilDao)

\* the last call was an update of a row that existed, and it returned no error
UpdatedExisting ==
    /\ Len(log) = 1 /\ log[1].op = "update"
    /\ ret.op = "update" /\ ret.err = Nil
    /\ HasRow(log[1].before, log[1].id)

\* C16: an update of an existing row that returns no error reports 1 row and
\* leaves that row with the supplied contents and lastActive and the supplied
\* expiration in whole seconds, under the same identifier; the number of rows
\* and every other row are as before, and a fetch of the identifier returns the
\* new contents, lastActive and expiration, whatever record it acquired.
UpdateInPlace ==
    UpdatedExisting =>
        LET call == log[1]
        IN  /\ ret.count = 1
            /\ BagCardinality(table) = BagCardinality(call.before)
            /\ \A row \in BagToSet(call.before) :
                    row.session_id # call.id
                        => CopiesIn(row, table) = CopiesIn(row, call.before)
            /\ sqlGetSessionBySessionID(table, call.id)
                    = {TableRow(call.id, call.contents, call.lastActive,
                                TruncToSecond(call.expiration) \div Second)}
            /\ \A data \in AcquiredRows :
                    Fetch(table, call.id, data)
                        = {Record(call.id, call.contents, call.lastActive,
                                  TruncToSecond(call.expiration))}

\* C16 witness: one of two rows was updated from contents "a" to "b" and to
\* MaxSeconds seconds, and the other row is there
UpdateInPlaceReached ==
    /\ UpdatedExisting
    /\ ret.count = 1
    /\ BagCardinality(table) = 2
    /\ RowOf(log[1].before, log[1].id).contents = "a"
    /\ log[1].contents = "b"
    /\ log[1].expiration = MaxSeconds * Second
    /\ RowOf(table, log[1].id).contents = "b"

\* C17: a delete that returns no error removes the row keyed by its id and no
\* other, reports 1 if that row existed and 0 if not, and leaves every other
\* row as it was; a fetch of the id then finds nothing, and an id that has no
\* row gets one only by an insert of it or a regenerate to it.
DeleteOne ==
    [][/\ (ret'.op = "delete" /\ ret'.err = Nil) =>
            /\ ret'.count = IF HasRow(table, ret'.id) THEN 1 ELSE 0
            /\ BagCardinality(table') = BagCardinality(table) - ret'.count
            /\ BagToSet(table') \subseteq BagToSet(table)
            /\ \A row \in BagToSet(table) :
                    row.session_id # ret'.id
                        => CopiesIn(row, table') = CopiesIn(row, table)
            /\ ~HasRow(table', ret'.id)
            /\ \A data \in AcquiredRows :
                    \A rec \in Fetch(table', ret'.id, data) : rec.sessionID = ""
       /\ \A id \in Ids :
            (~HasRow(table, id) /\ HasRow(table', id))
                => \/ ret'.op = "insert" /\ ret'.id = id
                   \/ ret'.op = "regenerate" /\ ret'.newID = id]_vars

\* C17 witness: a delete removed one of two rows and reported 1
DeleteOneReached ==
    /\ ret.op = "delete" /\ ret.err = Nil /\ ret.count = 1
    /\ ~HasRow(table, ret.id)
    /\ BagCardinality(table) = 1

\* the supplied expiration, counted from the stored lastActive, has run out at now
RunOut(now) ==
    now * Second >= RowOf(table, StoreId).last_active * Second + log[1].expiration

\* C18 as stated: a row written with a strictly positive expiration is not
\* stored with expiration 0, and a sweep made once now has reached lastActive
\* plus that expiration removes it.
PositiveExpires ==
    /\ [](Stored /\ log[1].expiration > 0 => RowOf(table, StoreId).expiration # 0)
    /\ [][(Stored /\ log[1].expiration > 0 /\ ret'.op = "sweep") =>
            \A now \in Clock :
                (RunOut(now) /\ deleteExpiredSessions(now, FALSE))
                    => ~HasRow(table', StoreId)]_vars

\* C18 amended: a row written with an expiration of at least one second is not
\* stored with expiration 0, and a sweep that returns no error, made once now
\* has reached lastActive plus that expiration, removes it.
WholeSecondExpires ==
    /\ [](Stored /\ log[1].expiration >= Second
            => RowOf(table, StoreId).expiration # 0)
    /\ [][(Stored /\ log[1].expiration >= Second /\ ret'.op = "sweep") =>
            \A now \in Clock :
                (RunOut(now) /\ deleteExpiredSessions(now, FALSE))
                    => ~HasRow(table', StoreId) /\ ret'.count = 1]_vars

\* C18 witness: a row written with one tick less than MaxSeconds seconds was
\* removed by a sweep
WholeSecondExpiresReached ==
    /\ ret.op = "sweep" /\ ret.err = Nil /\ ret.count = 1
    /\ Len(log) = 1 /\ log[1].expiration = MaxSeconds * Second - 1
    /\ table = EmptyBag

\* C19: a record has at most one holder, and a record that has a holder is not
\* in the pool: what acquireDBRow or getSessionBySessionID returned is no other
\* caller's until its holder has put it back.
ExclusiveOwnership ==
    \A r \in Recs :
        /\ Cardinality(refs[r]) <= 1
        /\ refs[r] # {} => r \notin pool
        /\ \A t \in Threads : inRelease[t] = r => refs[r] = {t}

\* C19 witness: caller t2 acquired a record that went through the pool (an
\* earlier fetch filled it) while t1 holds none, and it is t2's alone
ExclusiveOwnershipReached ==
    /\ ret.op = "acquire"
    /\ refs[ret.rec] = {"t2"}
    /\ ret.rec \notin pool
    /\ heap[ret.rec].expiration # 0
    /\ \A r \in Recs : "t1" \notin refs[r]

\* C20: for a row written from any duration the duration type can hold, the
\* stored seconds times one second is inside the range of the duration type,
\* and the duration a fetch returns is less than one second away from the one
\* supplied.
LoadInRange ==
    Stored =>
        LET s == RowOf(table, StoreId).expiration
            d == log[1].expiration
        IN  /\ -(Modulus \div 2) <= s * Second
            /\ s * Second <= Modulus \div 2 - 1
            /\ \A data \in AcquiredRows :
                    \A rec \in Fetch(table, StoreId, data) :
                        /\ rec.expiration - d < Second
                        /\ d - rec.expiration < Second

\* C20 witness: the largest duration was written and a fetch returns a positive
\* duration
LoadInRangeReached ==
    /\ Stored
    /\ log[1].expiration = Modulus \div 2 - 1
    /\ \A rec \in Fetch(table, StoreId, ZeroRow) :
            rec.expiration > (MaxSeconds + 1) * Second

====
